---- MODULE Spec2Model ----
(***************************************************************************)
(* url-generator-dpp/generate_urls.py: the order/EAN URL join.             *)
(*                                                                         *)
(* A Python string is a sequence of one-character strings, so that         *)
(* strip(), lower(), rstrip("/"), concatenation and the code point order   *)
(* used by sort_values are computed and not assumed.  A missing cell       *)
(* (NaN / pd.NA) is the value NA.  A DataFrame is a sequence of rows; a    *)
(* row is a record whose domain is the set of column labels.               *)
(***************************************************************************)
EXTENDS Integers, Sequences, FiniteSets, Bags, TLC

VARIABLES
    pc,            \* position in process_pair / in the get_column call
    orders_xlsx,   \* the orders sheet as read_excel(dtype=str) returns it
    eans_xlsx,     \* the EAN sheet as read_excel(dtype=str) returns it
    orders_df,     \* read_orders' result
    eans_df,       \* read_eans' result
    urls_df,       \* build_urls' first result
    unmatched_df,  \* build_urls' second result
    error,         \* the exception process_pair raised, "" when none
    df_columns,    \* get_column: the labels of df as read from the sheet
    call,          \* get_column: the call site (preferred_names, fallback_index)
    column,        \* get_column: what the call returned or raised
    out_xlsx,      \* process_pair: the file at output_path
    writer,        \* process_pair: the pd.ExcelWriter and the workbook it holds
    directory,     \* find_file_pairs: the stems of directory.glob("*.xlsx"), in its order
    scan,          \* find_file_pairs: how many paths the first loop has taken
    eans_files,    \* find_file_pairs: dict base -> path, in insertion order
    orders_files,  \* find_file_pairs: dict base -> path, in insertion order
    pairs,         \* find_file_pairs: the list it returns
    contents,      \* main: the sheet in each file of the directory
    pair_i,        \* main: how many pairs the loop has finished
    stdout,        \* main: the lines printed
    returned,      \* main: <<>> while running, then <<the value returned>>
    token,         \* centric_api main: the token held, "" for none
    credentials,   \* centric_api main: base_url, username and password are all set
    token_file,    \* centric_api main: the text of the token cache file
    authorization, \* centric_api main: headers["Authorization"]
    trace,         \* centric_api: the urlopen calls made, in order, with their results
    stderr,        \* centric_api main: the lines printed to sys.stderr
    exit_status    \* centric_api: <<>> while running, then <<the process's status>>

\* the file at output_path and its writer
fileVars == <<out_xlsx, writer>>

\* the state of find_file_pairs
findVars == <<directory, scan, eans_files, orders_files, pairs>>

\* what process_pair reads and computes
joinVars == <<orders_xlsx, eans_xlsx, orders_df, eans_df, urls_df, unmatched_df,
              error, df_columns, call, column>>

\* the state of main
mainVars == <<contents, pair_i, stdout, returned>>

\* the state of the API client
apiVars == <<token, credentials, token_file, authorization, trace, stderr, exit_status>>

\* what generate_urls.main does not touch
beyondMain == <<apiVars>>

\* what find_file_pairs does not touch, but for process_pair's own
beyondFind == <<mainVars, beyondMain>>

\* what process_pair does not touch
beyondPair == <<findVars, mainVars, beyondMain>>

\* what reading, joining and get_column do not touch
beyondJoin == <<fileVars, beyondPair>>

vars == <<pc, orders_xlsx, eans_xlsx, orders_df, eans_df, urls_df,
          unmatched_df, error, df_columns, call, column, beyondJoin>>

---------------------------------------------------------------------------
(* Strings *)

\* The characters the model uses, in code point order.
Ascii ==
    <<" ", "/", "0", "1", "2", "3", "4", "5", "6", "7", "8", "9",
      "A", "B", "C", "D", "E", "F", "G", "H", "I", "J", "K", "L", "M",
      "N", "O", "P", "Q", "R", "S", "T", "U", "V", "W", "X", "Y", "Z",
      "_",
      "a", "b", "c", "d", "e", "f", "g", "h", "i", "j", "k", "l", "m",
      "n", "o", "p", "q", "r", "s", "t", "u", "v", "w", "x", "y", "z">>

\* ord(): the position in Ascii stands for the code point
OrdOf == [c \in {Ascii[i] : i \in 1..Len(Ascii)} |-> CHOOSE i \in 1..Len(Ascii) : Ascii[i] = c]
Ord(c) == OrdOf[c]

UpperCase == <<"A", "B", "C", "D", "E", "F", "G", "H", "I", "J", "K", "L", "M",
               "N", "O", "P", "Q", "R", "S", "T", "U", "V", "W", "X", "Y", "Z">>
LowerCase == <<"a", "b", "c", "d", "e", "f", "g", "h", "i", "j", "k", "l", "m",
               "n", "o", "p", "q", "r", "s", "t", "u", "v", "w", "x", "y", "z">>

\* str.lower() on one character
LowerOf ==
    [c \in {UpperCase[i] : i \in 1..Len(UpperCase)} |->
        LowerCase[CHOOSE i \in 1..Len(UpperCase) : UpperCase[i] = c]]
LowerChar(c) == IF c \in DOMAIN LowerOf THEN LowerOf[c] ELSE c

\* str.lower()
Lower(s) == [i \in 1..Len(s) |-> LowerChar(s[i])]

\* the characters str.strip() removes
Whitespace == {" ", "\t", "\n", "\r"}

RECURSIVE LStripChars(_, _)
LStripChars(s, chars) ==
    IF s # <<>> /\ Head(s) \in chars THEN LStripChars(Tail(s), chars) ELSE s

RECURSIVE RStripChars(_, _)
RStripChars(s, chars) ==
    IF s # <<>> /\ s[Len(s)] \in chars
    THEN RStripChars(SubSeq(s, 1, Len(s) - 1), chars)
    ELSE s

\* str.strip()
Strip(s) == RStripChars(LStripChars(s, Whitespace), Whitespace)

\* Python's < on str: lexicographic by code point, a proper prefix first
RECURSIVE StrLess(_, _)
StrLess(s, t) ==
    IF t = <<>> THEN FALSE
    ELSE IF s = <<>> THEN TRUE
    ELSE IF Head(s) = Head(t) THEN StrLess(Tail(s), Tail(t))
    ELSE Ord(Head(s)) < Ord(Head(t))

\* a missing value (NaN, pd.NA); no string is equal to it
NA == <<"<NA>">>

\* Series.astype(str) on one cell: NaN becomes the text "nan"
AsStr(cell) == IF cell = NA THEN <<"n", "a", "n">> ELSE cell

---------------------------------------------------------------------------
(* Column resolution *)

\* normalize_column_names: every label stripped
normalize_column_names(columns) == [i \in 1..Len(columns) |-> Strip(columns[i])]

\* lower_map of get_column: the keys of the dict
LowerMapKeys(columns) == {Lower(Strip(columns[i])) : i \in 1..Len(columns)}

\* lower_map[key]: a later label overwrites an earlier one with the same key
LowerMapGet(columns, key) ==
    columns[CHOOSE i \in 1..Len(columns) :
               /\ Lower(Strip(columns[i])) = key
               /\ \A j \in (i + 1)..Len(columns) : Lower(Strip(columns[j])) # key]

\* df[label]: the positions (0-based) of every column carrying the label; one
\* position is a Series, several are a DataFrame of all of them
Select(columns, label) == {i \in 0..(Len(columns) - 1) : columns[i + 1] = label}

\* the first preferred name, in list order, that is a key of lower_map; 0 if none
FirstPreferred(columns, preferred_names) ==
    LET keys == LowerMapKeys(columns)
        found == {n \in 1..Len(preferred_names) : Lower(preferred_names[n]) \in keys}
    IN IF found = {} THEN 0
       ELSE CHOOSE n \in found : \A m \in found : n <= m

\* get_column(df, preferred_names, fallback_index), df given by its labels.
\* kind "Series": the column at the one position in cols; kind "DataFrame":
\* the columns at cols (a duplicated label); kind "KeyError": raised.
get_column(columns, preferred_names, fallback_index) ==
    LET n == FirstPreferred(columns, preferred_names) IN
    IF n # 0
    THEN LET cols == Select(columns, LowerMapGet(columns, Lower(preferred_names[n])))
         IN [kind |-> IF Cardinality(cols) = 1 THEN "Series" ELSE "DataFrame",
             cols |-> cols]
    ELSE IF 0 <= fallback_index /\ fallback_index < Len(columns)
    THEN [kind |-> "Series", cols |-> {fallback_index}]
    ELSE [kind |-> "KeyError", cols |-> {}]

\* the call sites of get_column: (preferred_names, fallback_index)
orders_purchase_order ==
    [preferred_names |->
        <<<<"p", "u", "r", "c", "h", "a", "s", "e", "_", "o", "r", "d", "e", "r">>,
          <<"p", "u", "r", "c", "h", "a", "s", "e", " ", "o", "r", "d", "e", "r">>,
          <<"p", "o">>>>,
     fallback_index |-> 0]

orders_product ==
    [preferred_names |->
        <<<<"p", "r", "o", "d", "u", "c", "t">>,
          <<"p", "r", "o", "d", "u", "c", "t", "_", "c", "o", "d", "e">>,
          <<"s", "k", "u">>>>,
     fallback_index |-> 1]

orders_base_url ==
    [preferred_names |->
        <<<<"b", "a", "s", "e", "_", "u", "r", "l">>,
          <<"b", "a", "s", "e", " ", "u", "r", "l">>,
          <<"u", "r", "l">>>>,
     fallback_index |-> 2]

eans_product ==
    [preferred_names |-> orders_product.preferred_names, fallback_index |-> 0]

eans_ean ==
    [preferred_names |->
        <<<<"e", "a", "n">>, <<"b", "a", "r", "c", "o", "d", "e">>>>,
     fallback_index |-> 1]

---------------------------------------------------------------------------
(* Normalization *)

\* a replace that forgets the text "nan"
ReplaceEmptyOnly(cell) == IF cell = <<>> THEN NA ELSE cell

\* DataFrame.replace({"": pd.NA, "nan": pd.NA}) on one cell
Replace(cell) == IF cell \in {<<>>, <<"n", "a", "n">>} THEN NA ELSE cell

\* DataFrame.dropna(subset=..., how="any"): the rows with no NA in subset, in order
DropNa(rows, subset) == SelectSeq(rows, LAMBDA r : \A c \in subset : r[c] # NA)

\* the one column a Series result stands for: its cell in a raw row
Cell(row, series) == row[(CHOOSE i \in series.cols : TRUE) + 1]

\* .astype(str).str.strip() and then the replace, on one cell
Clean(cell) == Replace(Strip(AsStr(cell)))

\* what read_orders / read_eans do with the columns get_column gave them:
\* a KeyError of get_column propagates (calls are made in order, so it comes
\* before anything else); a DataFrame has no .str accessor (AttributeError)
ReadError(resolved) ==
    IF \E r \in resolved : r.kind = "KeyError" THEN "KeyError"
    ELSE IF \E r \in resolved : r.kind = "DataFrame" THEN "AttributeError"
    ELSE ""

\* read_orders, from the sheet read_excel returned
read_orders(xlsx) ==
    LET columns == normalize_column_names(xlsx.columns)
        purchase_order == get_column(columns, orders_purchase_order.preferred_names,
                                     orders_purchase_order.fallback_index)
        product == get_column(columns, orders_product.preferred_names,
                              orders_product.fallback_index)
        base_url == get_column(columns, orders_base_url.preferred_names,
                               orders_base_url.fallback_index)
        err == ReadError({purchase_order, product, base_url})
        out == [i \in 1..Len(xlsx.rows) |->
                  [purchase_order |-> Clean(Cell(xlsx.rows[i], purchase_order)),
                   product |-> Clean(Cell(xlsx.rows[i], product)),
                   base_url |-> Clean(Cell(xlsx.rows[i], base_url))]]
    IN IF err # "" THEN [error |-> err, df |-> <<>>]
       ELSE [error |-> "",
             df |-> DropNa(out, {"purchase_order", "product", "base_url"})]

\* read_eans, from the sheet read_excel returned
read_eans(xlsx) ==
    LET columns == normalize_column_names(xlsx.columns)
        product == get_column(columns, eans_product.preferred_names,
                              eans_product.fallback_index)
        ean == get_column(columns, eans_ean.preferred_names, eans_ean.fallback_index)
        err == ReadError({product, ean})
        out == [i \in 1..Len(xlsx.rows) |->
                  [product |-> Clean(Cell(xlsx.rows[i], product)),
                   ean |-> Clean(Cell(xlsx.rows[i], ean))]]
    IN IF err # "" THEN [error |-> err, df |-> <<>>]
       ELSE [error |-> "", df |-> DropNa(out, {"product", "ean"})]

---------------------------------------------------------------------------
(* The join *)

\* a join key that keeps the case
ProductKeyCaseSensitive(product) == Strip(product)

\* the join key: product.str.strip().str.lower()
product_key(product) == Lower(Strip(product))

\* an inner join: a left row without a right row gives nothing
MergeRowInner(l, right) ==
    LET hits == SelectSeq(right, LAMBDA r : Lower(Strip(r.product)) = Lower(Strip(l.product)))
    IN [j \in 1..Len(hits) |->
          [purchase_order |-> l.purchase_order, product |-> l.product,
           base_url |-> l.base_url, product_key |-> Lower(Strip(l.product)),
           ean |-> hits[j].ean]]

\* a many-to-one join: only the first right row with the key is used
MergeRowFirstHit(l, right) ==
    LET hits == SelectSeq(right, LAMBDA r : Lower(Strip(r.product)) = Lower(Strip(l.product)))
    IN <<[purchase_order |-> l.purchase_order, product |-> l.product,
          base_url |-> l.base_url, product_key |-> Lower(Strip(l.product)),
          ean |-> IF hits = <<>> THEN NA ELSE hits[1].ean]>>

\* one left row of merge(how="left"): a row per right row with the same
\* product_key, in right order, or a single row with ean missing
MergeRow(l, right) ==
    LET hits == SelectSeq(right, LAMBDA r : product_key(r.product) = product_key(l.product))
    IN IF hits = <<>>
       THEN <<[purchase_order |-> l.purchase_order, product |-> l.product,
               base_url |-> l.base_url, product_key |-> product_key(l.product),
               ean |-> NA]>>
       ELSE [j \in 1..Len(hits) |->
               [purchase_order |-> l.purchase_order, product |-> l.product,
                base_url |-> l.base_url, product_key |-> product_key(l.product),
                ean |-> hits[j].ean]]

\* left.merge(right[["product_key", "ean"]], on="product_key", how="left")
RECURSIVE merge(_, _)
merge(left, right) ==
    IF left = <<>> THEN <<>>
    ELSE MergeRow(Head(left), right) \o merge(Tail(left), right)

\* df[[...]]: the named columns of each row
Project(rows, labels) == [i \in 1..Len(rows) |-> [c \in labels |-> rows[i][c]]]

\* no de-duplication
DropDuplicatesNone(rows) == rows

\* DataFrame.drop_duplicates(): the first occurrence of each row is kept
RECURSIVE drop_duplicates(_)
drop_duplicates(rows) ==
    IF rows = <<>> THEN <<>>
    ELSE LET init == drop_duplicates(SubSeq(rows, 1, Len(rows) - 1))
             last == rows[Len(rows)]
         IN IF \E i \in 1..Len(init) : init[i] = last THEN init ELSE Append(init, last)

\* a normalize_base that removes one trailing slash only
NormalizeBaseOnce(url) ==
    IF url # <<>> /\ url[Len(url)] = "/" THEN SubSeq(url, 1, Len(url) - 1) ELSE url

\* normalize_base
normalize_base(url) == RStripChars(url, {"/"})

\* the url column
compose_url(base_url, ean, purchase_order) ==
    base_url \o <<"/", "0", "1", "/">> \o ean \o <<"/", "1", "0", "/">> \o purchase_order

\* a sort key with the first two columns exchanged
SortKeyPurchaseOrderFirst(r) == <<r.purchase_order, r.product, r.ean>>

\* the sort key of sort_values(["product", "purchase_order", "ean"])
SortKey(r) == <<r.product, r.purchase_order, r.ean>>

\* tuple comparison, first difference decides
RECURSIVE KeyLess(_, _)
KeyLess(a, b) ==
    IF a = <<>> THEN FALSE
    ELSE IF Head(a) = Head(b) THEN KeyLess(Tail(a), Tail(b))
    ELSE StrLess(Head(a), Head(b))

\* sort_values: ascending and stable (a row goes after the rows not above it)
RECURSIVE sort_values(_)
sort_values(rows) ==
    IF rows = <<>> THEN <<>>
    ELSE LET init == sort_values(SubSeq(rows, 1, Len(rows) - 1))
             last == rows[Len(rows)]
             k == Cardinality({i \in 1..Len(init) : ~KeyLess(SortKey(last), SortKey(init[i]))})
         IN SubSeq(init, 1, k) \o <<last>> \o SubSeq(init, k + 1, Len(init))

\* the matched frame after base_url and url are assigned
WithUrl(matched) ==
    [i \in 1..Len(matched) |->
        [purchase_order |-> matched[i].purchase_order,
         product |-> matched[i].product,
         base_url |-> normalize_base(matched[i].base_url),
         product_key |-> matched[i].product_key,
         ean |-> matched[i].ean,
         url |-> compose_url(normalize_base(matched[i].base_url), matched[i].ean,
                             matched[i].purchase_order)]]

\* build_urls(orders, eans): [urls, unmatched]
build_urls(orders, eans) ==
    LET merged == merge(orders, eans)
        matched == DropNa(merged, {"ean"})
        unmatched == drop_duplicates(
                        Project(SelectSeq(merged, LAMBDA r : r.ean = NA),
                                {"purchase_order", "product", "base_url"}))
        result == Project(WithUrl(matched),
                          {"purchase_order", "product", "base_url", "ean", "url"})
    IN [urls |-> sort_values(result), unmatched |-> unmatched]

---------------------------------------------------------------------------
(* Inputs *)

MaxOrders == 2
MaxEans == 2
MaxCols == 3

\* the sequences over S of length at most n
SeqsUpTo(S, n) == UNION {[1..k -> S] : k \in 0..n}

\* an orders sheet whose product and purchase order columns are found by alias
\* (in another case, and not in the positional order) and whose base_url column
\* is found by position
OrderSheetColumns == <<<<"S", "K", "U">>, <<"P", "O">>, <<"l", "i", "n", "k">>>>

OrderSheetRows ==
    {<<product, purchase_order, base_url>> :
        product \in {<<"B", " ">>, <<"a">>},
        purchase_order \in {<<"P">>, <<"P", "Q">>},
        base_url \in {<<"u">>, <<"u", "/", "/">>}}

\* an EAN sheet whose product column is found by position and whose ean
\* column by the alias "barcode"
EanSheetColumns == <<<<"i", "t", "e", "m">>, <<"B", "a", "r", "c", "o", "d", "e", " ">>>>

EanSheetRows == {<<product, ean>> : product \in {<<"a">>, <<"b">>}, ean \in {<<"1">>, <<"2">>}}

\* sheets read_orders / read_eans cannot read: no base_url column by alias or
\* position; two labels that are equal once stripped
UnreadableOrderSheet == [columns |-> <<<<"P", "O">>, <<"S", "K", "U">>>>, rows |-> <<>>]
UnreadableEanSheet ==
    [columns |-> <<<<"i", "t", "e", "m">>, <<"e", "a", "n">>, <<"e", "a", "n", " ">>>>,
     rows |-> <<>>]

OrderSheets ==
    {[columns |-> OrderSheetColumns, rows |-> rows] :
        rows \in SeqsUpTo(OrderSheetRows, MaxOrders)} \cup {UnreadableOrderSheet}

EanSheets ==
    {[columns |-> EanSheetColumns, rows |-> rows] :
        rows \in SeqsUpTo(EanSheetRows, MaxEans)} \cup {UnreadableEanSheet}

NoColumn == [kind |-> "", cols |-> {}]

\* no file at output_path
NoFile == [exists |-> FALSE, sheets |-> <<>>]

\* no pd.ExcelWriter
NoWriter == [open |-> FALSE, sheets |-> <<>>]

\* nothing at output_path, no writer
FilesIdle == out_xlsx = NoFile /\ writer = NoWriter

\* find_file_pairs not called
FindIdle ==
    /\ directory = <<>>
    /\ scan = 0
    /\ eans_files = <<>>
    /\ orders_files = <<>>
    /\ pairs = <<>>

\* main not called
MainIdle ==
    /\ contents = <<>>
    /\ pair_i = 0
    /\ stdout = <<>>
    /\ returned = <<>>

\* the API client not run
ApiIdle ==
    /\ token = ""
    /\ credentials = FALSE
    /\ token_file = ""
    /\ authorization = <<>>
    /\ trace = <<>>
    /\ stderr = <<>>
    /\ exit_status = <<>>

\* the state outside generate_urls.main, where only it runs
BeyondMainIdle == ApiIdle

\* the state outside find_file_pairs, where only find_file_pairs runs
BeyondFindIdle == MainIdle /\ BeyondMainIdle

\* the state outside process_pair, where only process_pair runs
BeyondPairIdle == FindIdle /\ MainIdle /\ BeyondMainIdle

\* the state outside reading, joining and get_column, where they do not run
BeyondJoinIdle == FilesIdle /\ BeyondPairIdle

---------------------------------------------------------------------------
(* process_pair, up to the point where the output is written *)

Init ==
    /\ pc = "read_orders"
    /\ orders_xlsx \in OrderSheets
    /\ eans_xlsx \in EanSheets
    /\ orders_df = <<>>
    /\ eans_df = <<>>
    /\ urls_df = <<>>
    /\ unmatched_df = <<>>
    /\ error = ""
    /\ df_columns = <<>>
    /\ call = orders_product
    /\ column = NoColumn
    /\ BeyondJoinIdle

\* orders_df = read_orders(orders_path)
ReadOrders ==
    /\ pc = "read_orders"
    /\ LET r == read_orders(orders_xlsx) IN
         /\ orders_df' = r.df
         /\ error' = r.error
         /\ pc' = IF r.error = "" THEN "read_eans" ELSE "failed"
    /\ UNCHANGED <<orders_xlsx, eans_xlsx, eans_df, urls_df, unmatched_df,
                   df_columns, call, column, beyondJoin>>

\* the file as open(output_path, "wb") leaves it
Truncated == [exists |-> TRUE, sheets |-> <<>>]

\* the ExcelWriter opened before the EAN file is read
ReadEansWriterOpen ==
    /\ pc = "read_eans"
    /\ LET r == read_eans(eans_xlsx) IN
         /\ eans_df' = r.df
         /\ error' = r.error
         /\ pc' = IF r.error = "" THEN "build_urls" ELSE "failed"
    /\ out_xlsx' = Truncated
    /\ writer' = [open |-> TRUE, sheets |-> <<>>]
    /\ UNCHANGED <<orders_xlsx, eans_xlsx, orders_df, urls_df, unmatched_df,
                   df_columns, call, column, beyondPair>>

\* eans_df = read_eans(eans_path)
ReadEans ==
    /\ pc = "read_eans"
    /\ LET r == read_eans(eans_xlsx) IN
         /\ eans_df' = r.df
         /\ error' = r.error
         /\ pc' = IF r.error = "" THEN "build_urls" ELSE "failed"
    /\ UNCHANGED <<orders_xlsx, eans_xlsx, orders_df, urls_df, unmatched_df,
                   df_columns, call, column, beyondJoin>>

\* urls_df, unmatched_df = build_urls(orders_df, eans_df)
BuildUrls ==
    /\ pc = "build_urls"
    /\ LET r == build_urls(orders_df, eans_df) IN
         /\ urls_df' = r.urls
         /\ unmatched_df' = r.unmatched
    /\ pc' = "write"
    /\ UNCHANGED <<orders_xlsx, eans_xlsx, orders_df, eans_df, error,
                   df_columns, call, column, beyondJoin>>

Next == ReadOrders \/ ReadEans \/ BuildUrls

Spec == Init /\ [][Next]_vars

\* build_urls has returned
Joined == pc = "write"

---------------------------------------------------------------------------
(* get_column on its own *)

\* labels as they stand in a sheet's first row
SheetLabels ==
    {<<"S", "K", "U">>, <<"s", "k", "u">>, <<"s", "k", "u", " ">>,
     <<"P", "r", "o", "d", "u", "c", "t">>, <<"P", "O">>, <<"x">>}

\* read_excel renames a repeated label ("x", "x.1"), so the labels it returns
\* differ from one another
Distinct(seq) == \A i, j \in 1..Len(seq) : i # j => seq[i] # seq[j]

CallSites == {orders_purchase_order, orders_product, orders_base_url, eans_product, eans_ean}

InitCols ==
    /\ pc = "get_column"
    /\ df_columns \in {c \in SeqsUpTo(SheetLabels, MaxCols) : Distinct(c)}
    /\ call \in CallSites
    /\ column = NoColumn
    /\ orders_xlsx = [columns |-> <<>>, rows |-> <<>>]
    /\ eans_xlsx = [columns |-> <<>>, rows |-> <<>>]
    /\ orders_df = <<>>
    /\ eans_df = <<>>
    /\ urls_df = <<>>
    /\ unmatched_df = <<>>
    /\ error = ""
    /\ BeyondJoinIdle

\* df = normalize_column_names(df); get_column(df, preferred_names, fallback_index)
GetColumn ==
    /\ pc = "get_column"
    /\ column' = get_column(normalize_column_names(df_columns),
                            call.preferred_names, call.fallback_index)
    /\ pc' = "returned"
    /\ UNCHANGED <<orders_xlsx, eans_xlsx, orders_df, eans_df, urls_df,
                   unmatched_df, error, df_columns, call, beyondJoin>>

NextCols == GetColumn

SpecCols == InitCols /\ [][NextCols]_vars

\* the header key of the column at 0-based position i: trimmed and lowercased
HeaderKey(i) == Lower(Strip(df_columns[i + 1]))

\* alias n of the call matches some header
AliasMatches(n) ==
    \E i \in 0..(Len(df_columns) - 1) : HeaderKey(i) = Lower(call.preferred_names[n])

\* C9: get_column returns the column whose trimmed, lowercased header equals
\* the first alias, in list order, that matches any header; with no matching
\* alias it returns the column at the fallback index when that index is within
\* the column count; otherwise it fails with the missing-column error and
\* returns no column.
C9_ColumnResolution ==
    pc = "returned" =>
        IF \E n \in 1..Len(call.preferred_names) : AliasMatches(n)
        THEN \E n \in 1..Len(call.preferred_names) :
                /\ AliasMatches(n)
                /\ \A m \in 1..(n - 1) : ~AliasMatches(m)
                /\ column.kind = "Series"
                /\ \E i \in 0..(Len(df_columns) - 1) :
                      column.cols = {i} /\ HeaderKey(i) = Lower(call.preferred_names[n])
        ELSE IF call.fallback_index < Len(df_columns)
        THEN column = [kind |-> "Series", cols |-> {call.fallback_index}]
        ELSE column = [kind |-> "KeyError", cols |-> {}]

---------------------------------------------------------------------------
(* read_orders and read_eans on sheets with blank, padded and "nan" cells *)

\* columns named by their aliases, in the order purchase order, product, url
RawOrderColumns == <<<<"p", "o">>, <<"p", "r", "o", "d", "u", "c", "t">>, <<"u", "r", "l">>>>

\* NA is a cell the sheet leaves empty
RawOrderRows ==
    {<<purchase_order, product, base_url>> :
        purchase_order \in {NA, <<" ", "P">>},
        product \in {<<"n", "a", "n", " ">>, <<"a">>},
        base_url \in {<<" ">>, <<"u", " ">>}}

RawEanColumns == <<<<"p", "r", "o", "d", "u", "c", "t">>, <<"E", "A", "N">>>>

RawEanRows ==
    {<<product, ean>> :
        product \in {<<>>, <<"N", "A", "N">>},
        ean \in {<<"1">>, <<" ", "n", "a", "n">>}}

InitNorm ==
    /\ pc = "read_orders"
    /\ orders_xlsx \in {[columns |-> RawOrderColumns, rows |-> rows] :
                           rows \in SeqsUpTo(RawOrderRows, MaxOrders)}
    /\ eans_xlsx \in {[columns |-> RawEanColumns, rows |-> rows] :
                         rows \in SeqsUpTo(RawEanRows, MaxEans)}
    /\ orders_df = <<>>
    /\ eans_df = <<>>
    /\ urls_df = <<>>
    /\ unmatched_df = <<>>
    /\ error = ""
    /\ df_columns = <<>>
    /\ call = orders_product
    /\ column = NoColumn
    /\ BeyondJoinIdle

NextNorm == ReadOrders \/ ReadEans

SpecNorm == InitNorm /\ [][NextNorm]_vars

\* the text of a cell; an empty cell reads as "nan" once cast to str
CellText(cell) == IF cell = NA THEN <<"n", "a", "n">> ELSE cell

\* t is s without its leading and trailing whitespace
IsTrimOf(t, s) ==
    \E i \in 1..(Len(s) + 1) : \E j \in (i - 1)..Len(s) :
        /\ t = SubSeq(s, i, j)
        /\ \A k \in 1..(i - 1) : s[k] \in Whitespace
        /\ \A k \in (j + 1)..Len(s) : s[k] \in Whitespace
        /\ i <= j => (s[i] \notin Whitespace /\ s[j] \notin Whitespace)

Trimmed(cell) ==
    LET s == CellText(cell)
    IN CHOOSE t \in {SubSeq(s, i, j) : i \in 1..(Len(s) + 1), j \in 0..Len(s)} :
          IsTrimOf(t, s)

\* a required field that is present
Present(cell) == Trimmed(cell) \notin {<<>>, <<"n", "a", "n">>}

\* out is the rows of raw whose cells are all present, trimmed, in raw's order
IsNormalized(out, raw, labels) ==
    LET kept == {i \in 1..Len(raw) : \A c \in 1..Len(labels) : Present(raw[i][c])}
    IN /\ Len(out) = Cardinality(kept)
       /\ \A i \in kept :
             LET k == Cardinality({j \in kept : j <= i})
             IN /\ DOMAIN out[k] = {labels[c] : c \in 1..Len(labels)}
                /\ \A c \in 1..Len(labels) : out[k][labels[c]] = Trimmed(raw[i][c])

---------------------------------------------------------------------------
(* Properties of build_urls, stated on process_pair *)

Rows(df) == {df[i] : i \in 1..Len(df)}

\* how many rows of df equal v
Count(df, v) == Cardinality({i \in 1..Len(df) : df[i] = v})

\* t is s with every trailing "/" removed and nothing else
NoTrailingSlash(t, s) ==
    \E k \in 0..Len(s) :
        /\ t = SubSeq(s, 1, k)
        /\ \A j \in (k + 1)..Len(s) : s[j] = "/"
        /\ k > 0 => s[k] # "/"

Slashless(s) == CHOOSE t \in {SubSeq(s, 1, k) : k \in 0..Len(s)} : NoTrailingSlash(t, s)

\* two product values are equal once trimmed and lowercased
KeyEq(p, q) ==
    LET a == Trimmed(p)
        b == Trimmed(q)
    IN /\ Len(a) = Len(b)
       /\ \A i \in 1..Len(a) : LowerChar(a[i]) = LowerChar(b[i])

HasEan(o) == \E e \in Rows(eans_df) : KeyEq(o.product, e.product)

\* the output row of an order and an EAN record
UrlRow(o, e) ==
    LET base == Slashless(o.base_url)
    IN [purchase_order |-> o.purchase_order,
        product |-> o.product,
        base_url |-> base,
        ean |-> e.ean,
        url |-> base \o <<"/", "0", "1", "/">> \o e.ean
                   \o <<"/", "1", "0", "/">> \o o.purchase_order]

OrderColumns == {"purchase_order", "product", "base_url"}

\* a matched row seen as an order: its (purchase_order, product, base_url)
AsOrder(r) == [c \in OrderColumns |-> r[c]]

\* C1: every matched row's url is its order's base_url without trailing
\* slashes, then "/01/", the ean, "/10/" and the purchase order; the row's
\* base_url is that stripped form.
C1_UrlFormat ==
    Joined =>
        \A r \in Rows(urls_df) :
            /\ \E o \in Rows(orders_df) :
                  /\ o.purchase_order = r.purchase_order
                  /\ o.product = r.product
                  /\ NoTrailingSlash(r.base_url, o.base_url)
            /\ r.url = r.base_url \o <<"/", "0", "1", "/">> \o r.ean
                          \o <<"/", "1", "0", "/">> \o r.purchase_order

\* an order whose base_url ends in two slashes was matched
C1_Witness ==
    /\ Joined
    /\ \E o \in Rows(orders_df) : o.base_url = <<"u", "/", "/">> /\ HasEan(o)
    /\ \E r \in Rows(urls_df) :
          r.url = <<"u", "/", "0", "1", "/", "2", "/", "1", "0", "/", "P", "Q">>

\* C2: the purchase orders of the matched and the unmatched output together
\* are exactly the purchase orders of the normalized orders.
C2_NoOrderLost ==
    Joined =>
        {r.purchase_order : r \in Rows(urls_df)}
            \cup {r.purchase_order : r \in Rows(unmatched_df)}
        = {o.purchase_order : o \in Rows(orders_df)}

\* one purchase order was matched and another was not
C2_Witness ==
    /\ Joined
    /\ {r.purchase_order : r \in Rows(urls_df)} = {<<"P">>}
    /\ {r.purchase_order : r \in Rows(unmatched_df)} = {<<"P", "Q">>}

\* C3 as stated: the (purchase_order, product, base_url) triples of the
\* matched and the unmatched output together are exactly the input triples.
C3_TriplesEqualInput ==
    Joined =>
        {AsOrder(r) : r \in Rows(urls_df)} \cup Rows(unmatched_df) = Rows(orders_df)

\* C3: the (purchase_order, product, base_url) triples of the matched and
\* the unmatched output together are exactly the input triples in which the
\* base_url of every order with a matching EAN has lost its trailing slashes.
C3_TriplesEqualInputStripped ==
    Joined =>
        {AsOrder(r) : r \in Rows(urls_df)} \cup Rows(unmatched_df)
        = {IF HasEan(o) THEN [o EXCEPT !.base_url = Slashless(o.base_url)] ELSE o :
              o \in Rows(orders_df)}

\* a matched order whose base_url had trailing slashes, beside an unmatched one
C3_Witness ==
    /\ Joined
    /\ \E o \in Rows(orders_df) :
          HasEan(o) /\ o.base_url # Slashless(o.base_url)
    /\ \E o \in Rows(orders_df) : ~HasEan(o) /\ o.base_url # Slashless(o.base_url)

\* C4: an order and an EAN record are joined iff their products are equal
\* once trimmed and lowercased; the key is a column of neither output.
C4_JoinOnProductKey ==
    Joined =>
        /\ {<<r.purchase_order, r.product, r.ean>> : r \in Rows(urls_df)}
           = {<<x[1].purchase_order, x[1].product, x[2].ean>> :
                 x \in {y \in Rows(orders_df) \X Rows(eans_df) :
                           KeyEq(y[1].product, y[2].product)}}
        /\ \A r \in Rows(urls_df) :
              DOMAIN r = {"purchase_order", "product", "base_url", "ean", "url"}
        /\ \A r \in Rows(unmatched_df) : DOMAIN r = OrderColumns

\* the sheet's product "B " was joined with the EAN product "b"
C4_Witness ==
    /\ Joined
    /\ \E i \in 1..Len(orders_xlsx.rows) : orders_xlsx.rows[i][1] = <<"B", " ">>
    /\ \A e \in Rows(eans_df) : e.product = <<"b">>
    /\ \E r \in Rows(urls_df) : r.product = <<"B">>

\* the (order row, EAN row) pairs with equal keys
JoinedPairs ==
    {x \in (1..Len(orders_df)) \X (1..Len(eans_df)) :
        KeyEq(orders_df[x[1]].product, eans_df[x[2]].product)}

\* C5: the matched output has exactly one row per (order row, EAN row) pair
\* with equal keys, duplicates counted: no pair is dropped or merged.
C5_OneRowPerPair ==
    Joined =>
        LET joined == JoinedPairs
            rows == [x \in joined |-> UrlRow(orders_df[x[1]], eans_df[x[2]])]
        IN /\ Len(urls_df) = Cardinality(joined)
           /\ \A v \in Rows(urls_df) :
                 Count(urls_df, v) = Cardinality({x \in joined : rows[x] = v})

\* one order, the same EAN row twice: two equal matched rows
C5_Witness ==
    /\ Joined
    /\ Len(orders_df) = 1 /\ Len(eans_df) = 2 /\ eans_df[1] = eans_df[2]
    /\ Len(urls_df) = 2 /\ urls_df[1] = urls_df[2]

\* C6: the unmatched output is the set of input triples of the orders whose
\* key is no EAN record's key, each once and unmodified, and no order is in
\* both outputs.
C6_Unmatched ==
    Joined =>
        /\ Rows(unmatched_df) = {o \in Rows(orders_df) : ~HasEan(o)}
        /\ \A i, j \in 1..Len(unmatched_df) : unmatched_df[i] = unmatched_df[j] => i = j
        /\ \A u \in Rows(unmatched_df) :
              ~\E r \in Rows(urls_df) :
                  /\ r.purchase_order = u.purchase_order
                  /\ r.product = u.product
                  /\ NoTrailingSlash(r.base_url, u.base_url)

\* the same unmatched order twice is reported once, its base_url untouched
C6_Witness ==
    /\ Joined
    /\ Len(orders_df) = 2 /\ orders_df[1] = orders_df[2]
    /\ eans_df # <<>>
    /\ unmatched_df = <<[purchase_order |-> <<"P">>, product |-> <<"B">>,
                         base_url |-> <<"u", "/", "/">>]>>

\* s < t for strings: the first difference decides, a proper prefix is smaller
StrLt(s, t) ==
    \E k \in 1..Len(t) :
        /\ k <= Len(s) + 1
        /\ \A j \in 1..(k - 1) : s[j] = t[j]
        /\ k <= Len(s) => Ord(s[k]) < Ord(t[k])

\* a <= b for tuples of strings of the same length
TupleLeq(a, b) ==
    \/ a = b
    \/ \E k \in 1..Len(a) : (\A j \in 1..(k - 1) : a[j] = b[j]) /\ StrLt(a[k], b[k])

\* C7: the matched output is ascending by (product, purchase_order, ean).
C7_Sorted ==
    Joined =>
        \A i \in 1..(Len(urls_df) - 1) :
            TupleLeq(<<urls_df[i].product, urls_df[i].purchase_order, urls_df[i].ean>>,
                     <<urls_df[i + 1].product, urls_df[i + 1].purchase_order,
                       urls_df[i + 1].ean>>)

\* the orders came as "a" then "B"; the output has "B" first, and the
\* purchase order "PQ" before "P" because product decides first
C7_Witness ==
    /\ Joined
    /\ Len(orders_df) = 2 /\ Len(urls_df) = 2
    /\ orders_df[1].product = <<"a">> /\ orders_df[1].purchase_order = <<"P">>
    /\ urls_df[1].product = <<"B">> /\ urls_df[1].purchase_order = <<"P", "Q">>
    /\ urls_df[2].product = <<"a">>

\* the rows of df with their multiplicities
SeqToBag(df) == [v \in Rows(df) |-> Count(df, v)]

\* every reordering of df
Reorderings(df) ==
    {[i \in 1..Len(df) |-> df[p[i]]] : p \in Permutations(1..Len(df))}

\* C8: reordering the order rows and the EAN rows changes neither the
\* multiset of matched rows nor the set of unmatched rows.
C8_OrderInsensitive ==
    Joined =>
        LET urls == SeqToBag(urls_df)
            unmatched == Rows(unmatched_df)
        IN \A o \in Reorderings(orders_df) : \A e \in Reorderings(eans_df) :
              LET r == build_urls(o, e)
              IN SeqToBag(r.urls) = urls /\ Rows(r.unmatched) = unmatched

\* two different orders and two different EAN rows, with matched and
\* unmatched output
C8_Witness ==
    /\ Joined
    /\ Len(orders_df) = 2 /\ orders_df[1] # orders_df[2]
    /\ Len(eans_df) = 2 /\ eans_df[1] # eans_df[2]
    /\ Len(urls_df) = 2 /\ Len(unmatched_df) = 1

-----------------------------------------------------------------------------
(* process_pair: reading, joining, then writing the workbook *)

MaxPairRows == 1

PairOrderRows ==
    {<<<<"B", " ">>, <<"P">>, <<"u">>>>, <<<<"a">>, <<"P">>, <<"u", "/", "/">>>>}

PairEanRows == {<<<<"a">>, <<"1">>>>, <<<<"b">>, <<"2">>>>}

PairOrderSheets ==
    {[columns |-> OrderSheetColumns, rows |-> rows] :
        rows \in SeqsUpTo(PairOrderRows, MaxPairRows)} \cup {UnreadableOrderSheet}

PairEanSheets ==
    {[columns |-> EanSheetColumns, rows |-> rows] :
        rows \in SeqsUpTo(PairEanRows, MaxPairRows)} \cup {UnreadableEanSheet}

\* the workbook an earlier run left at output_path
OldFile ==
    [exists |-> TRUE,
     sheets |-> <<[name |-> "urls", rows |-> <<>>],
                  [name |-> "unmatched_orders", rows |-> <<>>]>>]

InitPair ==
    /\ pc = "read_orders"
    /\ orders_xlsx \in PairOrderSheets
    /\ eans_xlsx \in PairEanSheets
    /\ orders_df = <<>>
    /\ eans_df = <<>>
    /\ urls_df = <<>>
    /\ unmatched_df = <<>>
    /\ error = ""
    /\ df_columns = <<>>
    /\ call = orders_product
    /\ column = NoColumn
    /\ out_xlsx \in {NoFile, OldFile}
    /\ writer = NoWriter
    /\ BeyondPairIdle

\* with pd.ExcelWriter(output_path, engine="openpyxl") as writer: the file is
\* opened for writing, which empties it at once or leaves it until the save,
\* or the open raises OSError
OpenWriter ==
    /\ pc = "write"
    /\ \/ /\ out_xlsx' \in {Truncated, out_xlsx}
          /\ writer' = [open |-> TRUE, sheets |-> <<>>]
          /\ pc' = "urls_to_excel"
          /\ UNCHANGED error
       \/ /\ error' = "OSError"
          /\ pc' = "failed"
          /\ UNCHANGED <<out_xlsx, writer>>
    /\ UNCHANGED <<orders_xlsx, eans_xlsx, orders_df, eans_df, urls_df,
                   unmatched_df, df_columns, call, column, beyondPair>>

\* df.to_excel(writer, index=False, sheet_name=name)
to_excel(book, df, name) == Append(book, [name |-> name, rows |-> df])

\* the unmatched sheet written whether or not there are unmatched orders
UnmatchedSheetAlways(book, df) == to_excel(book, df, "unmatched_orders")

\* if not unmatched_df.empty: unmatched_df.to_excel(..., "unmatched_orders")
UnmatchedSheet(book, df) ==
    IF df # <<>> THEN to_excel(book, df, "unmatched_orders") ELSE book

\* urls_df.to_excel(writer, index=False, sheet_name="urls")
WriteUrls ==
    /\ pc = "urls_to_excel"
    /\ writer' = [writer EXCEPT !.sheets = to_excel(@, urls_df, "urls")]
    /\ pc' = "unmatched_to_excel"
    /\ UNCHANGED <<orders_xlsx, eans_xlsx, orders_df, eans_df, urls_df,
                   unmatched_df, error, df_columns, call, column, out_xlsx,
                   beyondPair>>

WriteUnmatched ==
    /\ pc = "unmatched_to_excel"
    /\ writer' = [writer EXCEPT !.sheets = UnmatchedSheet(@, unmatched_df)]
    /\ pc' = "close"
    /\ UNCHANGED <<orders_xlsx, eans_xlsx, orders_df, eans_df, urls_df,
                   unmatched_df, error, df_columns, call, column, out_xlsx,
                   beyondPair>>

\* leaving the with block: the workbook is saved to output_path
CloseWriter ==
    /\ pc = "close"
    /\ out_xlsx' = [exists |-> TRUE, sheets |-> writer.sheets]
    /\ writer' = [writer EXCEPT !.open = FALSE]
    /\ pc' = "done"
    /\ UNCHANGED <<orders_xlsx, eans_xlsx, orders_df, eans_df, urls_df,
                   unmatched_df, error, df_columns, call, column, beyondPair>>

NextPair ==
    \/ ReadOrders
    \/ ReadEans
    \/ BuildUrls
    \/ OpenWriter
    \/ WriteUrls
    \/ WriteUnmatched
    \/ CloseWriter

SpecPair == InitPair /\ [][NextPair]_vars

\* process_pair is still reading or joining
Reading == pc \in {"read_orders", "read_eans", "build_urls"}

\* process_pair raised out of a read
ReadFailed == pc = "failed" /\ error \in {"KeyError", "AttributeError"}

\* C12: while process_pair reads and joins, no writer is open and the file at
\* output_path is not touched; when a read fails, the file is what it was
\* before the step and no writer was ever opened.
C12_NoPartialWrite ==
    [][Reading =>
         /\ ~writer.open
         /\ out_xlsx' = out_xlsx
         /\ writer' = writer
         /\ ReadFailed' => (out_xlsx' \in {NoFile, OldFile} /\ writer' = NoWriter)]_vars

\* the EAN file could not be read and the workbook of the earlier run is intact
C12_Witness ==
    /\ ReadFailed
    /\ error = "AttributeError"
    /\ orders_df # <<>>
    /\ out_xlsx = OldFile

\* the names of the sheets in the file at output_path
SheetNames == {out_xlsx.sheets[i].name : i \in 1..Len(out_xlsx.sheets)}

\* process_pair returned
Wrote == pc = "done"

\* C14: the written workbook has the sheet "urls", and has the sheet
\* "unmatched_orders" exactly when there are unmatched orders.
C14_Sheets ==
    Wrote =>
        /\ out_xlsx.exists
        /\ "urls" \in SheetNames
        /\ "unmatched_orders" \in SheetNames <=> unmatched_df # <<>>
        /\ \A i \in 1..Len(out_xlsx.sheets) :
              /\ out_xlsx.sheets[i].name = "urls" => out_xlsx.sheets[i].rows = urls_df
              /\ out_xlsx.sheets[i].name = "unmatched_orders"
                    => out_xlsx.sheets[i].rows = unmatched_df

\* no matched rows and no unmatched orders, over a workbook that had both
\* sheets: the new workbook has the sheet "urls" alone
C14_Witness ==
    /\ Wrote
    /\ urls_df = <<>>
    /\ unmatched_df = <<>>
    /\ SheetNames = {"urls"}

-----------------------------------------------------------------------------
(* find_file_pairs *)

MaxFiles == 4

\* str.endswith
EndsWith(s, suffix) ==
    /\ Len(s) >= Len(suffix)
    /\ SubSeq(s, Len(s) - Len(suffix) + 1, Len(s)) = suffix

\* name.endswith(suffix), in the case the name is written in
HasSuffixExact(name, suffix) == EndsWith(name, suffix)

\* lower.endswith(suffix), lower = name.lower()
HasSuffix(name, suffix) == EndsWith(Lower(name), suffix)

\* name[: -len(suffix)]
BaseOf(name, suffix) == SubSeq(name, 1, Len(name) - Len(suffix))

EansSuffix == <<"_", "e", "a", "n", "s">>
OrdersSuffix == <<"_", "o", "r", "d", "e", "r", "s">>

\* d[key] = value on a dict kept in insertion order: a key already there
\* keeps its place and takes the new value
DictSet(d, key, value) ==
    IF \E i \in 1..Len(d) : d[i].key = key
    THEN [i \in 1..Len(d) |-> IF d[i].key = key THEN [key |-> key, value |-> value] ELSE d[i]]
    ELSE Append(d, [key |-> key, value |-> value])

\* key in d
DictHas(d, key) == \E i \in 1..Len(d) : d[i].key = key

\* d.get(key), for a key in d
DictGet(d, key) == d[CHOOSE i \in 1..Len(d) : d[i].key = key].value

\* the second loop: one triple per item of eans_files whose base is a key
\* of orders_files, in the order of eans_files.items()
RECURSIVE PairsOf(_, _)
PairsOf(eans, orders) ==
    IF eans = <<>> THEN <<>>
    ELSE LET base == Head(eans).key
             rest == PairsOf(Tail(eans), orders)
         IN IF DictHas(orders, base)
            THEN <<[eans_path |-> Head(eans).value,
                    orders_path |-> DictGet(orders, base),
                    base |-> base]>> \o rest
            ELSE rest

\* the stems of the *.xlsx files a directory may hold
Stems ==
    {<<"a", "_", "e", "a", "n", "s">>,
     <<"a", "_", "E", "A", "N", "S">>,
     <<"a", "_", "o", "r", "d", "e", "r", "s">>,
     <<"A", "_", "o", "r", "d", "e", "r", "s">>,
     <<"b", "_", "e", "a", "n", "s">>,
     <<"b", "_", "O", "r", "d", "e", "r", "s">>,
     <<"n", "o", "t", "e", "s">>}

\* the sequences of k different elements of S
RECURSIVE Arrangements(_, _)
Arrangements(S, k) ==
    IF k = 0 THEN {<<>>}
    ELSE UNION {{Append(a, x) : x \in S \ {a[i] : i \in 1..Len(a)}} :
                   a \in Arrangements(S, k - 1)}

\* what directory.glob("*.xlsx") may yield: some of the files, in any order
Listings(S) == UNION {Arrangements(S, k) : k \in 0..MaxFiles}

\* process_pair and the API client do not run
FindAlone ==
    /\ orders_xlsx = [columns |-> <<>>, rows |-> <<>>]
    /\ eans_xlsx = [columns |-> <<>>, rows |-> <<>>]
    /\ orders_df = <<>>
    /\ eans_df = <<>>
    /\ urls_df = <<>>
    /\ unmatched_df = <<>>
    /\ error = ""
    /\ df_columns = <<>>
    /\ call = orders_product
    /\ column = NoColumn
    /\ FilesIdle

InitFind ==
    /\ pc = "glob"
    /\ directory \in Listings(Stems)
    /\ scan = 0
    /\ eans_files = <<>>
    /\ orders_files = <<>>
    /\ pairs = <<>>
    /\ FindAlone
    /\ BeyondFindIdle

\* one pass of "for path in directory.glob("*.xlsx")"
ScanPath ==
    /\ pc = "glob"
    /\ scan < Len(directory)
    /\ LET name == directory[scan + 1] IN
         IF HasSuffix(name, EansSuffix)
         THEN /\ eans_files' = DictSet(eans_files, BaseOf(name, EansSuffix), name)
              /\ UNCHANGED orders_files
         ELSE IF HasSuffix(name, OrdersSuffix)
         THEN /\ orders_files' = DictSet(orders_files, BaseOf(name, OrdersSuffix), name)
              /\ UNCHANGED eans_files
         ELSE UNCHANGED <<eans_files, orders_files>>
    /\ scan' = scan + 1
    /\ UNCHANGED <<pc, directory, pairs, joinVars, fileVars, beyondFind>>

\* the second loop, and return pairs
PairUp ==
    /\ pc = "glob"
    /\ scan = Len(directory)
    /\ pairs' = PairsOf(eans_files, orders_files)
    /\ pc' = "found"
    /\ UNCHANGED <<directory, scan, eans_files, orders_files, joinVars, fileVars,
                   beyondFind>>

NextFind == ScanPath \/ PairUp

SpecFind == InitFind /\ [][NextFind]_vars

\* find_file_pairs returned
Found == pc = "found"

\* the files of the directory
Files == {directory[i] : i \in 1..Len(directory)}

\* every string a file name starts with
Bases == UNION {{SubSeq(name, 1, k) : k \in 0..Len(name)} : name \in Files}

\* name is base followed by the suffix, the suffix in any case
IsNamed(name, base, suffix) ==
    /\ Len(name) = Len(base) + Len(suffix)
    /\ SubSeq(name, 1, Len(base)) = base
    /\ Lower(SubSeq(name, Len(base) + 1, Len(name))) = suffix

\* C13: a base has a triple exactly when the directory has a <base>_eans file
\* and a <base>_orders file (suffix in any case); the paths of a triple are
\* such files of the directory; no base has two triples.
C13_Pairs ==
    Found =>
        /\ \A base \in Bases :
              (\E i \in 1..Len(pairs) : pairs[i].base = base)
                <=> /\ \E name \in Files : IsNamed(name, base, EansSuffix)
                    /\ \E name \in Files : IsNamed(name, base, OrdersSuffix)
        /\ \A i \in 1..Len(pairs) :
              /\ pairs[i].base \in Bases
              /\ pairs[i].eans_path \in Files
              /\ pairs[i].orders_path \in Files
              /\ IsNamed(pairs[i].eans_path, pairs[i].base, EansSuffix)
              /\ IsNamed(pairs[i].orders_path, pairs[i].base, OrdersSuffix)
        /\ \A i, j \in 1..Len(pairs) : pairs[i].base = pairs[j].base => i = j

\* "a_eans" and "A_orders" have different bases and stay unpaired; "b_eans"
\* and "b_Orders" make the one triple, the orders file listed first
C13_Witness ==
    /\ Found
    /\ directory = <<<<"b", "_", "O", "r", "d", "e", "r", "s">>, <<"A", "_", "o", "r", "d", "e", "r", "s">>, <<"a", "_", "e", "a", "n", "s">>, <<"b", "_", "e", "a", "n", "s">>>>
    /\ pairs = <<[eans_path |-> <<"b", "_", "e", "a", "n", "s">>, orders_path |-> <<"b", "_", "O", "r", "d", "e", "r", "s">>, base |-> <<"b">>]>>

-----------------------------------------------------------------------------
(* main: the batch run *)

\* the stems of the *.xlsx files of the script's directory
MainStems ==
    {<<"a", "_", "e", "a", "n", "s">>,
     <<"a", "_", "o", "r", "d", "e", "r", "s">>,
     <<"b", "_", "E", "A", "N", "S">>,
     <<"b", "_", "o", "r", "d", "e", "r", "s">>,
     <<"c", "_", "e", "a", "n", "s">>}

MainOrderSheets ==
    {[columns |-> OrderSheetColumns, rows |-> <<<<<<"a">>, <<"P">>, <<"u">>>>>>],
     UnreadableOrderSheet}

MainEanSheets ==
    {[columns |-> EanSheetColumns, rows |-> <<<<<<"a">>, <<"1">>>>>>],
     UnreadableEanSheet}

\* the sheets the files of a listing may hold
ContentsOf(listing) ==
    LET names == {listing[i] : i \in 1..Len(listing)}
    IN {f \in [names -> MainOrderSheets \cup MainEanSheets] :
          \A name \in names :
              f[name] \in IF HasSuffix(name, EansSuffix) THEN MainEanSheets
                          ELSE MainOrderSheets}

InitMain ==
    /\ pc = "glob"
    /\ directory \in Listings(MainStems)
    /\ contents \in ContentsOf(directory)
    /\ scan = 0
    /\ eans_files = <<>>
    /\ orders_files = <<>>
    /\ pairs = <<>>
    /\ pair_i = 0
    /\ stdout = <<>>
    /\ returned = <<>>
    /\ FindAlone
    /\ BeyondMainIdle

\* a line of output
Line(line, eans_path, orders_path, base, exc) ==
    [line |-> line, eans |-> eans_path, orders |-> orders_path, base |-> base,
     exc |-> exc]

\* if not pairs: print("No matching ..."); return 0
NoPairs ==
    /\ pc = "found"
    /\ pairs = <<>>
    /\ stdout' = Append(stdout, Line("No matching", <<>>, <<>>, <<>>, ""))
    /\ returned' = <<0>>
    /\ pc' = "returned"
    /\ UNCHANGED <<contents, pair_i, joinVars, fileVars, findVars,
                   beyondMain>>

\* the head of the loop body: print("Processing pair: ...") and the call of
\* process_pair on the pair's two files; output_path may hold an earlier run's
\* workbook
StartPair ==
    /\ pc \in {"found", "next_pair"}
    /\ pair_i < Len(pairs)
    /\ LET pair == pairs[pair_i + 1] IN
         /\ stdout' = Append(stdout, Line("Processing pair", pair.eans_path,
                                          pair.orders_path, pair.base, ""))
         /\ orders_xlsx' = contents[pair.orders_path]
         /\ eans_xlsx' = contents[pair.eans_path]
    /\ orders_df' = <<>>
    /\ eans_df' = <<>>
    /\ urls_df' = <<>>
    /\ unmatched_df' = <<>>
    /\ error' = ""
    /\ out_xlsx' \in {NoFile, OldFile}
    /\ writer' = NoWriter
    /\ pc' = "read_orders"
    /\ UNCHANGED <<df_columns, call, column, contents, pair_i, returned, findVars,
                   beyondMain>>

\* process_pair returned: print("Wrote: ..."), next pair
PrintWrote ==
    /\ pc = "done"
    /\ stdout' = Append(stdout, Line("Wrote", <<>>, <<>>, pairs[pair_i + 1].base, ""))
    /\ pair_i' = pair_i + 1
    /\ pc' = "next_pair"
    /\ UNCHANGED <<contents, returned, joinVars, fileVars, findVars,
                   beyondMain>>

\* the exception of process_pair not caught: main ends with it
PrintFailedAndStop ==
    /\ pc = "failed"
    /\ stdout' = Append(stdout, Line("Failed processing", <<>>, <<>>,
                                     pairs[pair_i + 1].base, error))
    /\ pair_i' = pair_i + 1
    /\ returned' = <<1>>
    /\ pc' = "returned"
    /\ UNCHANGED <<contents, joinVars, fileVars, findVars,
                   beyondMain>>

\* except Exception as exc: print("Failed processing ..."), next pair
PrintFailed ==
    /\ pc = "failed"
    /\ stdout' = Append(stdout, Line("Failed processing", <<>>, <<>>,
                                     pairs[pair_i + 1].base, error))
    /\ pair_i' = pair_i + 1
    /\ pc' = "next_pair"
    /\ UNCHANGED <<contents, returned, joinVars, fileVars, findVars,
                   beyondMain>>

\* the loop is over: return 0
Return ==
    /\ pc = "next_pair"
    /\ pair_i = Len(pairs)
    /\ returned' = <<0>>
    /\ pc' = "returned"
    /\ UNCHANGED <<contents, pair_i, stdout, joinVars, fileVars, findVars,
                   beyondMain>>

NextMain ==
    \/ ScanPath
    \/ PairUp
    \/ NoPairs
    \/ StartPair
    \/ ReadOrders
    \/ ReadEans
    \/ BuildUrls
    \/ OpenWriter
    \/ WriteUrls
    \/ WriteUnmatched
    \/ CloseWriter
    \/ PrintWrote
    \/ PrintFailed
    \/ Return

SpecMain == InitMain /\ [][NextMain]_vars

\* main returned
Returned == pc = "returned"

\* the lines of stdout that start with the given words
Lines(line) == SelectSeq(stdout, LAMBDA l : l.line = line)

\* the pairs main has called process_pair on, in the order of the calls
Attempted ==
    LET started == Lines("Processing pair")
    IN [k \in 1..Len(started) |->
          [eans_path |-> started[k].eans, orders_path |-> started[k].orders,
           base |-> started[k].base]]

\* is s the first Len(s) elements of t
IsPrefix(s, t) == Len(s) <= Len(t) /\ s = SubSeq(t, 1, Len(s))

\* the lines that report how a pair ended
Reports == SelectSeq(stdout, LAMBDA l : l.line \in {"Wrote", "Failed processing"})

\* C11: the pairs attempted so far are the first pairs of the discovered list,
\* in its order and once each; each attempt but the running one has its report;
\* main never stops before it returns (a read or the join is one step that
\* always ends, in a value or an exception), and when it returns it has
\* attempted every pair and returns 0.
C11_EveryPairAttempted ==
    /\ IsPrefix(Attempted, pairs)
    /\ Len(Reports) = pair_i
    /\ Len(Attempted) \in {pair_i, pair_i + 1}
    /\ \A k \in 1..Len(Reports) : Reports[k].base = pairs[k].base
    /\ \/ Returned
       \/ Reading
       \/ ENABLED (ScanPath \/ PairUp \/ NoPairs \/ StartPair \/ OpenWriter
                    \/ WriteUrls \/ WriteUnmatched \/ CloseWriter
                    \/ PrintWrote \/ PrintFailed \/ Return)
    /\ Returned => Attempted = pairs /\ returned = <<0>>

\* two pairs: the first failed on its orders file, the second was written
\* after it, and main returned 0
C11_Witness ==
    /\ Returned
    /\ Len(pairs) = 2
    /\ Reports[1].line = "Failed processing" /\ Reports[1].exc = "KeyError"
    /\ Reports[2].line = "Wrote"
    /\ returned = <<0>>

-----------------------------------------------------------------------------
(* centric_api: the request with one re-authentication *)

\* the status on which perform_request_with_refresh re-authenticates
Unauthorized == 401

\* the tokens a flag, the cache file or the server may give
Tokens == {"t0", "t1"}

\* the status codes an HTTPError may carry
ErrorCodes == {Unauthorized, 403, 500}

\* f"Bearer {token}"
Bearer(t) == <<"Bearer", t>>

\* one urlopen call
Call(url, auth, result, code, issued) ==
    [url |-> url, authorization |-> auth, result |-> result, code |-> code,
     token |-> issued]

\* how urlopen on the request URL may end: a response, an HTTPError, a
\* URLError, or an exception that is neither (a timeout while reading)
SendResults ==
    {[result |-> "ok", code |-> 200], [result |-> "URLError", code |-> 0],
     [result |-> "Exception", code |-> 0]}
    \cup {[result |-> "HTTPError", code |-> c] : c \in ErrorCodes}

\* how get_token may end: a token, one of the exceptions authenticate_and_cache
\* catches, or one it does not
AuthResults ==
    {[result |-> "ok", code |-> 200, token |-> t] : t \in Tokens}
    \cup {[result |-> r, code |-> 0, token |-> ""] :
             r \in {"HTTPError", "URLError", "RuntimeError", "Exception"}}

\* generate_urls does not run
ApiAlone == FindAlone /\ FindIdle /\ MainIdle

InitApi ==
    /\ pc = "ensure_token"
    /\ token \in {""} \cup Tokens
    /\ credentials \in BOOLEAN
    /\ token_file \in {"", "t0"}
    /\ authorization = <<>>
    /\ trace = <<>>
    /\ stderr = <<>>
    /\ exit_status = <<>>
    /\ ApiAlone

\* what the API client does not touch
beyondApi == <<joinVars, fileVars, findVars, mainVars>>

\* the process ends with the status, after the line on stderr
Exit(status, line) ==
    /\ pc' = "exited"
    /\ exit_status' = <<status>>
    /\ stderr' = Append(stderr, line)

\* authenticate_and_cache(), then to: the new token goes to the headers
authenticate_and_cache(to) ==
    IF ~credentials
    THEN /\ Exit(1, "Error: base_url, username, and password are required")
         /\ UNCHANGED <<token, token_file, authorization, trace>>
    ELSE \E r \in AuthResults :
           /\ trace' = Append(trace, Call("session", <<>>, r.result, r.code, r.token))
           /\ IF r.result = "ok"
              THEN /\ token' = r.token
                   /\ token_file' \in {r.token, token_file}
                   /\ authorization' = Bearer(r.token)
                   /\ pc' = to
                   /\ UNCHANGED <<stderr, exit_status>>
              ELSE /\ Exit(1, IF r.result = "Exception" THEN "Traceback"
                              ELSE "Authentication failed")
                   /\ UNCHANGED <<token, token_file, authorization>>

\* headers = {"Authorization": f"Bearer {ensure_token()}", ...}
EnsureToken ==
    /\ pc = "ensure_token"
    /\ IF token # ""
       THEN /\ authorization' = Bearer(token)
            /\ pc' = "send"
            /\ UNCHANGED <<token, token_file, trace, stderr, exit_status>>
       ELSE authenticate_and_cache("send")
    /\ UNCHANGED <<credentials, beyondApi>>

\* the first http_request_with_meta of perform_request_with_refresh
Send ==
    /\ pc = "send"
    /\ \E r \in SendResults :
         /\ trace' = Append(trace, Call("endpoint", authorization, r.result, r.code, ""))
         /\ IF r.result = "ok"
            THEN pc' = "respond" /\ UNCHANGED <<stderr, exit_status>>
            ELSE IF r.result = "HTTPError" /\ r.code = Unauthorized
            THEN pc' = "reauth" /\ UNCHANGED <<stderr, exit_status>>
            ELSE Exit(1, IF r.result = "Exception" THEN "Traceback" ELSE "Request failed")
    /\ UNCHANGED <<token, credentials, token_file, authorization, beyondApi>>

\* if exc.code == 401: new_token = authenticate_and_cache();
\* headers["Authorization"] = f"Bearer {new_token}"
Reauthenticate ==
    /\ pc = "reauth"
    /\ authenticate_and_cache("retry")
    /\ UNCHANGED <<credentials, beyondApi>>

\* a retry that re-authenticates again when it is refused again
RetryAgain ==
    /\ pc = "retry"
    /\ \E r \in SendResults :
         /\ trace' = Append(trace, Call("endpoint", authorization, r.result, r.code, ""))
         /\ IF r.result = "ok"
            THEN pc' = "respond" /\ UNCHANGED <<stderr, exit_status>>
            ELSE IF r.result = "HTTPError" /\ r.code = Unauthorized
            THEN pc' = "reauth" /\ UNCHANGED <<stderr, exit_status>>
            ELSE Exit(1, IF r.result = "Exception" THEN "Traceback" ELSE "Request failed")
    /\ UNCHANGED <<token, credentials, token_file, authorization, beyondApi>>

\* the retry: http_request_with_meta inside the except block; what it raises
\* leaves perform_request_with_refresh
Retry ==
    /\ pc = "retry"
    /\ \E r \in SendResults :
         /\ trace' = Append(trace, Call("endpoint", authorization, r.result, r.code, ""))
         /\ IF r.result = "ok"
            THEN pc' = "respond" /\ UNCHANGED <<stderr, exit_status>>
            ELSE Exit(1, IF r.result = "Exception" THEN "Traceback" ELSE "Request failed")
    /\ UNCHANGED <<token, credentials, token_file, authorization, beyondApi>>

\* the response is written out and main returns 0, or the write raises
Respond ==
    /\ pc = "respond"
    /\ \E written \in BOOLEAN :
         /\ pc' = "exited"
         /\ exit_status' = IF written THEN <<0>> ELSE <<1>>
         /\ stderr' = IF written THEN stderr ELSE Append(stderr, "Traceback")
    /\ UNCHANGED <<token, credentials, token_file, authorization, trace, beyondApi>>

NextApi == EnsureToken \/ Send \/ Reauthenticate \/ Retry \/ Respond

SpecApi == InitApi /\ [][NextApi]_vars

\* the process has ended
Exited == pc = "exited"

\* the positions in trace of the requests to the endpoint
Sends == {i \in 1..Len(trace) : trace[i].url = "endpoint"}

\* the call at position i of trace did not give a response
Failed(i) == trace[i].result # "ok"

\* C15: the endpoint request is sent at most twice; a second send comes right
\* after a successful re-authentication that follows a first send refused with
\* 401, and carries the token that re-authentication gave; any other failed
\* call is the last call of the run; a run that made a failed call other than
\* the refused first send, or whose re-authentication could not start, ends
\* with a non-zero status, and no run stops without a status.
C15_OneRetry ==
    /\ Cardinality(Sends) <= 2
    /\ \A i, j \in Sends :
          i < j =>
            /\ trace[i].result = "HTTPError" /\ trace[i].code = Unauthorized
            /\ j = i + 2
            /\ trace[i + 1].url = "session" /\ trace[i + 1].result = "ok"
            /\ trace[j].authorization = Bearer(trace[i + 1].token)
    /\ \A i \in 1..Len(trace) :
          /\ Failed(i)
          /\ ~(trace[i].url = "endpoint" /\ trace[i].code = Unauthorized
                 /\ \A j \in Sends : i <= j)
          => /\ i = Len(trace)
             /\ Exited
             /\ exit_status # <<0>>
    /\ Exited /\ exit_status = <<0>> => trace # <<>> /\ ~Failed(Len(trace))
    /\ Exited \/ ENABLED NextApi
    /\ Exited <=> exit_status # <<>>

\* the first send was refused with 401, the re-authentication gave another
\* token than the one sent first, and the second send carried it and succeeded
C15_Witness ==
    /\ Exited
    /\ exit_status = <<0>>
    /\ Cardinality(Sends) = 2
    /\ trace[Len(trace) - 2].authorization = Bearer("t0")
    /\ trace[Len(trace)].authorization = Bearer("t1")

====
